---- MODULE Spec2Model ----
(***************************************************************************)
(* Model of tools/update_bootloader.py: the bootloader update tool for     *)
(* XIAO nRF52840 boards (Serial DFU through adafruit-nrfutil).             *)
(*                                                                         *)
(* One run of main() is modelled from the point where parse_args() has     *)
(* returned.  Every interaction with the environment (a version probe, an  *)
(* HTTP request, a prompt, the enumeration of ports, the DFU subprocess)   *)
(* is one action whose outcome is chosen by the environment.               *)
(*                                                                         *)
(* Text is modelled as a sequence of tokens (pieces of a string), so that  *)
(* `in`, endswith(), lower(), strip(), int() and os.path.join() are        *)
(* computed rather than assumed.  The token alphabet is chosen so that a   *)
(* character-level match can only begin and end at token boundaries.       *)
(***************************************************************************)
EXTENDS Integers, Sequences, FiniteSets, TLC

\* Longest asset list of a fetched release.
MaxAssets == 2

\* Most runs of the tool made one after the other.
MaxRuns == 3

-----------------------------------------------------------------------------
(* Python values *)

\* None, for the optional string arguments and results (never a real text).
None == <<"<None>">>

\* Python truthiness of an optional string: None and "" are falsy.
Truthy(s) == s # None /\ s # <<>>

-----------------------------------------------------------------------------
(* Text helpers *)

\* sub in s
Contains(s, sub) ==
    \E i \in 0..(Len(s) - Len(sub)) :
        \A j \in 1..Len(sub) : s[i + j] = sub[j]

\* s.endswith(suf)
EndsWith(s, suf) ==
    /\ Len(suf) <= Len(s)
    /\ \A j \in 1..Len(suf) : s[Len(s) - Len(suf) + j] = suf[j]

\* s.startswith(pre)
StartsWith(s, pre) ==
    /\ Len(pre) <= Len(s)
    /\ \A j \in 1..Len(pre) : s[j] = pre[j]

\* str.lower() of one token: only the tokens with upper-case letters change.
LowerTok(t) ==
    CASE t = "XIAO"      -> "xiao"
      [] t = "Seeed_"    -> "seeed_"
      [] t = "Bluefruit" -> "bluefruit"
      [] t = "nRF52"     -> "nrf52"
      [] t = "USB Serial Device" -> "usb serial device"
      [] OTHER           -> t

\* s.lower()
Lower(s) == [i \in 1..Len(s) |-> LowerTok(s[i])]

\* "xiao" in t, for a lower-case token t
TokHasXiao(t) == t \in {"xiao", "xiao_nrf52840_ble"}

\* "xiao" in s, for a lower-case text s
ContainsXiao(s) == \E i \in 1..Len(s) : TokHasXiao(s[i])

-----------------------------------------------------------------------------
(* Program constants *)

BOARD_ASSET_NAMES(b) ==
    CASE b = "sense"    -> <<"xiao_nrf52840_ble", "_sense", "_bootloader">>
      [] b = "standard" -> <<"xiao_nrf52840_ble", "_bootloader">>
      [] OTHER          -> <<>>

Boards == {"sense", "standard"}

Platforms == {"Linux", "Darwin", "Windows", "FreeBSD"}

_NRFUTIL_CANDIDATES(system) ==
    <<"adafruit-nrfutil">> \o
    (CASE system = "Darwin"  -> <<"adafruit-nrfutil-macos", "./adafruit-nrfutil-macos">>
       [] system = "Windows" -> <<"adafruit-nrfutil.exe", ".\\adafruit-nrfutil.exe">>
       [] OTHER              -> <<>>)

-----------------------------------------------------------------------------
(* Filesystem: the set of paths that exist.  A path is a text whose "/"    *)
(* token separates a directory from an entry in it.                        *)

\* os.path.join(d, name)
PathJoin(d, name) == d \o <<"/">> \o name

\* p is d itself or lies below d
IsUnder(p, d) == p = d \/ StartsWith(p, d \o <<"/">>)

\* os.path.exists(p)
PathExists(files, p) == p \in files

\* shutil.rmtree(d, ignore_errors=True): d and everything below it is gone.
rmtree(files, d) == {p \in files : ~IsUnder(p, d)}

\* The user's directory and the package file in it.
UserDir == <<"/home/user/fw">>
LocalPkg == PathJoin(UserDir, <<"local", ".zip">>)
MissingPkg == PathJoin(UserDir, <<"missing", ".zip">>)

\* The directory tempfile.mkdtemp(prefix="opendisplay_bl_") creates: a fresh
\* name that no existing path has.
TmpDir == <<"/tmp/opendisplay_bl_k3x9">>

\* Values of --pkg: absent, the empty text, an existing file, a missing file.
PkgArgs == {None, <<>>, LocalPkg, MissingPkg}

-----------------------------------------------------------------------------
(* The release registry.  An asset is modelled by its name: the registry   *)
(* gives every asset a non-empty browser_download_url.                     *)

SenseZip == <<"xiao_nrf52840_ble", "_sense", "_bootloader", "-0.9.2", ".zip">>
SenseZipOld == <<"xiao_nrf52840_ble", "_sense", "_bootloader", "-0.9.0", ".zip">>
StandardZip == <<"xiao_nrf52840_ble", "_bootloader", "-0.9.2", ".zip">>
SenseUf2 ==
    <<"update-", "xiao_nrf52840_ble", "_sense", "_bootloader", "-1.2.3", "_nosd", ".uf2">>
StandardUf2 ==
    <<"update-", "xiao_nrf52840_ble", "_bootloader", "-1.2.3", "_nosd", ".uf2">>
FeatherZip == <<"feather_nrf52840_express", "_bootloader", "-0.9.2", ".zip">>
SeeedHex == <<"Seeed_", "XIAO", "-0.9.2", ".hex">>

AssetNames ==
    {SenseZip, SenseZipOld, StandardZip, SenseUf2, StandardUf2, FeatherZip, SeeedHex}

\* release.get("assets", []) of the latest release: any list of assets.
Releases == UNION {[1..n -> AssetNames] : n \in 0..MaxAssets}

\* Variant of AssetMatches: the suffix of the name is not looked at.
MatchesAnySuffix(board_name, name) == Contains(name, board_name)

\* The test of line 348: board_name in name and name.endswith(".zip")
AssetMatches(board_name, name) ==
    Contains(name, board_name) /\ EndsWith(name, <<".zip">>)

\* Variant of ScanAssets: the loop has no break, so the last match wins.
ScanLast(board_name, assets) ==
    IF \E i \in 1..Len(assets) : AssetMatches(board_name, assets[i])
    THEN CHOOSE i \in 1..Len(assets) :
            /\ AssetMatches(board_name, assets[i])
            /\ \A j \in (i + 1)..Len(assets) : ~AssetMatches(board_name, assets[j])
    ELSE 0

\* The loop of lines 346-351: the index of the asset the scan stops at, 0 if
\* it runs to the end without a match.
ScanAssets(board_name, assets) ==
    IF \E i \in 1..Len(assets) : AssetMatches(board_name, assets[i])
    THEN CHOOSE i \in 1..Len(assets) :
            /\ AssetMatches(board_name, assets[i])
            /\ \A j \in 1..(i - 1) : ~AssetMatches(board_name, assets[j])
    ELSE 0

\* Variant of IsListed: every asset of the release is printed.
ListsEverything(name) == TRUE

\* The test of line 357: "xiao" in asset.get("name", "").lower()
IsListed(name) == ContainsXiao(Lower(name))

\* The names printed under "Available XIAO assets:" (lines 356-358).
XiaoListing(assets) == SelectSeq(assets, IsListed)

-----------------------------------------------------------------------------
(* Serial ports *)

ACM0 == <<"/dev/ttyACM", "0">>
ACM1 == <<"/dev/ttyACM", "1">>
UsbModem1 == <<"/dev/cu.usbmodem", "101">>
UsbModem2 == <<"/dev/cu.usbmodem", "201">>

\* Device nodes that may be present under /dev.
DevNodes == {ACM0, ACM1, UsbModem1, UsbModem2}

\* The device nodes in ascending string order.
NodeOrder == <<UsbModem1, UsbModem2, ACM0, ACM1>>

\* sorted(glob.glob(pattern + "*")) over the nodes present
SortedGlob(nodes, pattern) ==
    LET hit(p) == p \in nodes /\ StartsWith(p, pattern)
    IN  SelectSeq(NodeOrder, hit)

\* What serial.tools.list_ports.comports() may report on Windows.
COM1 == [device |-> <<"COM", "1">>, description |-> None]
COM3 == [device |-> <<"COM", "3">>, description |-> <<"USB Serial Device">>]
COM4 == [device |-> <<"COM", "4">>, description |-> <<"nRF52", " ", "USB Serial Device">>]
COM5 == [device |-> <<"COM", "5">>, description |-> <<"Bluefruit">>]

ComInfos == {COM1, COM3, COM4, COM5}

\* Lists of up to two distinct ports, in any order.
ComLists ==
    {<<>>} \cup {<<a>> : a \in ComInfos}
           \cup {ab \in ComInfos \X ComInfos : ab[1] # ab[2]}

\* (p.description or "").lower(), then "nrf" in desc or "bluefruit" in desc
IsNrfPort(p) ==
    LET desc == Lower(IF Truthy(p.description) THEN p.description ELSE <<>>)
    IN  \E i \in 1..Len(desc) : desc[i] \in {"nrf52", "bluefruit"}

\* The Windows branch of find_serial_ports (lines 393-407).
WindowsPorts(comports, have_pyserial) ==
    IF ~have_pyserial THEN <<>>
    ELSE LET preferred == SelectSeq(comports, IsNrfPort)
             chosen == IF preferred # <<>> THEN preferred ELSE comports
         IN  [i \in 1..Len(chosen) |-> chosen[i].device]

\* find_serial_ports(): the environment is the device nodes present, the
\* list comports() reports and whether pyserial can be imported.
find_serial_ports(sys_name, nodes, comports, have_pyserial) ==
    CASE sys_name = "Linux"   -> SortedGlob(nodes, <<"/dev/ttyACM">>)
      [] sys_name = "Darwin"  -> SortedGlob(nodes, <<"/dev/cu.usbmodem">>)
      [] sys_name = "Windows" -> WindowsPorts(comports, have_pyserial)
      [] OTHER                -> <<>>

\* Values of --port: absent, the empty text, a port.
PortArgs == {None, <<>>, <<"/dev/ttyACM", "7">>}

-----------------------------------------------------------------------------
(* The answer to "Select port number: " *)

Digits == {"0", "1", "2", "3", "4", "5", "6", "7", "8", "9"}

DigitVal(t) ==
    CASE t = "0" -> 0 [] t = "1" -> 1 [] t = "2" -> 2 [] t = "3" -> 3
      [] t = "4" -> 4 [] t = "5" -> 5 [] t = "6" -> 6 [] t = "7" -> 7
      [] t = "8" -> 8 [] t = "9" -> 9

\* str.strip(): leading and trailing blanks removed
RECURSIVE Strip(_)
Strip(s) ==
    IF s = <<>> THEN s
    ELSE IF Head(s) = " " THEN Strip(Tail(s))
    ELSE IF s[Len(s)] = " " THEN Strip(SubSeq(s, 1, Len(s) - 1))
    ELSE s

\* The digits of a numeral without its sign.
Unsigned(s) == IF s # <<>> /\ Head(s) \in {"-", "+"} THEN Tail(s) ELSE s

\* int(s) does not raise ValueError
IntParses(s) ==
    /\ Unsigned(s) # <<>>
    /\ \A i \in 1..Len(Unsigned(s)) : Unsigned(s)[i] \in Digits

RECURSIVE DecimalVal(_)
DecimalVal(s) ==
    IF s = <<>> THEN 0
    ELSE 10 * DecimalVal(SubSeq(s, 1, Len(s) - 1)) + DigitVal(s[Len(s)])

\* int(s), for a text that parses
IntVal(s) ==
    IF Head(s) = "-" THEN 0 - DecimalVal(Unsigned(s)) ELSE DecimalVal(Unsigned(s))

\* seq[k] does not raise IndexError
IndexOk(seq, k) == 0 - Len(seq) <= k /\ k < Len(seq)

\* seq[k] for a Python index k: 0-based, negative counts from the end
PyIndex(seq, k) == IF k >= 0 THEN seq[k + 1] ELSE seq[Len(seq) + k + 1]

\* What the operator may type at the selection prompt.
Answers ==
    { <<>>, <<"0">>, <<"1">>, <<"2">>, <<" ", "1", " ">>, <<"+", "1">>,
      <<"-", "1">>, <<"-", "3">>, <<"1", "0">>, <<"x">>, <<"1", "x">>, <<"-">> }

-----------------------------------------------------------------------------
(* State of one run of main() *)

VARIABLES
    arg_board,    \* args.board
    arg_pkg,      \* args.pkg
    arg_port,     \* args.port
    sys_name,     \* platform.system()
    pc,           \* the position of the run in main()
    cand,         \* find_nrfutil: index of the candidate being probed
    probes,       \* find_nrfutil: the outcomes of the probes made so far
    nrfutil_bin,  \* the binary find_nrfutil returned
    tmp_dir,      \* the temporary directory of the run, or None
    pkg_path,     \* the package handed to the transfer
    release,      \* download_dfu_package: the asset names of the fetched release
    asset_name,   \* download_dfu_package: the asset the scan selected
    listed,       \* the asset names printed as "Available XIAO assets"
    ports,        \* the candidate ports listed for selection
    port,         \* the port handed to the transfer
    cmd,          \* the command given to subprocess.run for the transfer
    returncode,   \* result.returncode of the transfer, -1 if there is none
    fs,           \* the paths that exist
    out,          \* the reports printed so far
    calls,        \* how often each external operation was performed
    exitCode,     \* the exit status of the process, -1 while it runs
    exc,          \* the exception that ended the run, "" if none
    choice,       \* the stripped answer to the selection prompt, or None
    dfu_outcome,  \* how subprocess.run of the transfer ended, "" before that
    run           \* the number of this run of the tool

vars == <<arg_board, arg_pkg, arg_port, sys_name, pc, cand, probes, nrfutil_bin,
          tmp_dir, pkg_path, release, asset_name, listed, ports, port, cmd,
          returncode, fs, out, calls, exitCode, exc, choice, dfu_outcome, run>>

args == <<arg_board, arg_pkg, arg_port, sys_name>>

\* Outcomes of subprocess.run([candidate, "version"], timeout=10).
ProbeOutcomes == {"rc0", "rc1", "FileNotFoundError", "OSError", "TimeoutExpired"}

\* The probes that got a process running.
Started(log) ==
    {i \in 1..Len(log) : log[i] \in {"rc0", "rc1", "TimeoutExpired"}}

NoCalls ==
    [mkdtemp |-> 0, rmtree |-> 0, removed |-> 0,
     get_release |-> 0, get_asset |-> 0, find_ports |-> 0, dfu |-> 0]

Init ==
    /\ arg_board \in Boards
    /\ arg_pkg \in PkgArgs
    /\ arg_port \in PortArgs
    /\ sys_name \in Platforms
    /\ pc = "find_nrfutil"
    /\ cand = 1
    /\ probes = <<>>
    /\ nrfutil_bin = None
    /\ tmp_dir = None
    /\ pkg_path = None
    /\ release = <<>>
    /\ asset_name = None
    /\ listed = <<>>
    /\ ports = <<>>
    /\ port = None
    /\ cmd = <<>>
    /\ returncode = -1
    /\ fs = {UserDir, LocalPkg}
    /\ out = {}
    /\ calls = NoCalls
    /\ exitCode = -1
    /\ exc = ""
    /\ choice = None
    /\ dfu_outcome = ""
    /\ run = 1

-----------------------------------------------------------------------------
(* Leaving main() *)

\* Variant of FinallyFs: nothing is removed.
FinallyKeeps(files) == files

\* Variant of FinallyFs: the directory of the package is removed, whoever
\* made it.
FinallyRemovesPackageDir(files) ==
    IF Truthy(pkg_path)
    THEN rmtree(files, SubSeq(pkg_path, 1, 1))
    ELSE files

\* The finally clause of lines 587-589, on the filesystem.
FinallyFs(files) == IF Truthy(tmp_dir) THEN rmtree(files, tmp_dir) ELSE files

\* The finally clause of lines 587-589, on the counts of calls.
FinallyCalls(c) ==
    IF Truthy(tmp_dir)
    THEN [c EXCEPT !.rmtree = @ + 1,
                   !.removed = @ + (IF PathExists(fs, tmp_dir) THEN 1 ELSE 0)]
    ELSE c

\* The run ends outside the try statement: sys.exit(code) or an exception
\* that nothing catches.
LeaveOutsideTry(code, how, reports, c) ==
    /\ pc' = "exited"
    /\ exitCode' = code
    /\ exc' = how
    /\ out' = out \cup reports
    /\ calls' = c
    /\ fs' = fs

\* The run ends inside the try statement: the finally clause runs first.
LeaveInsideTry(code, how, reports, c) ==
    /\ pc' = "exited"
    /\ exitCode' = code
    /\ exc' = how
    /\ out' = out \cup reports
    /\ calls' = FinallyCalls(c)
    /\ fs' = FinallyFs(fs)

-----------------------------------------------------------------------------
(* Step 1: prerequisites (lines 456-464, find_nrfutil lines 264-279) *)

\* Variant of Accepted: a probe that returned is accepted whatever its code.
AcceptedAnyCode(r) == r \in {"rc0", "rc1"}

\* Line 270: result.returncode == 0
Accepted(r) == r = "rc0"

\* One pass of the loop of find_nrfutil: probe candidate `cand`.  Exit code 0
\* returns the candidate; anything else moves on to the next one, and after
\* the last one the function returns (None, None).
ProbeCandidate ==
    /\ pc = "find_nrfutil"
    /\ \E r \in ProbeOutcomes :
        /\ probes' = Append(probes, r)
        /\ IF Accepted(r)
           THEN /\ nrfutil_bin' = <<_NRFUTIL_CANDIDATES(sys_name)[cand]>>
                /\ pc' = "check_nrfutil"
                /\ cand' = cand
           ELSE IF cand < Len(_NRFUTIL_CANDIDATES(sys_name))
           THEN /\ cand' = cand + 1
                /\ UNCHANGED <<nrfutil_bin, pc>>
           ELSE /\ nrfutil_bin' = None
                /\ pc' = "check_nrfutil"
                /\ cand' = cand
    /\ UNCHANGED <<args, run, choice, dfu_outcome, returncode, tmp_dir, pkg_path, release, asset_name, listed,
                   ports, port, cmd, fs, out, calls, exitCode, exc>>

\* Variant of NotFound: the result of the detection is not looked at.
NotFoundIgnored(bin) == FALSE

\* Line 459: not nrfutil_bin
NotFound(bin) == ~Truthy(bin)

\* Lines 459-464: without a binary the run ends here.
CheckPrerequisites ==
    /\ pc = "check_nrfutil"
    /\ IF NotFound(nrfutil_bin)
       THEN LeaveOutsideTry(1, "SystemExit", {"nrfutil_not_found"}, calls)
       ELSE /\ pc' = "package"
            /\ UNCHANGED <<fs, out, calls, exitCode, exc>>
    /\ UNCHANGED <<args, run, choice, dfu_outcome, returncode, cand, probes, nrfutil_bin, tmp_dir, pkg_path, release,
                   asset_name, listed, ports, port, cmd>>

-----------------------------------------------------------------------------
(* Step 2: the package (lines 466-479) *)

\* Lines 469-472: --pkg names a file that does not exist.
LocalPackageMissing ==
    /\ pc = "package"
    /\ Truthy(arg_pkg)
    /\ ~PathExists(fs, arg_pkg)
    /\ LeaveOutsideTry(1, "SystemExit", {"file_not_found"}, calls)
    /\ UNCHANGED <<args, run, choice, dfu_outcome, returncode, cand, probes, nrfutil_bin, tmp_dir, pkg_path, release,
                   asset_name, listed, ports, port, cmd>>

\* Lines 473-474: --pkg names an existing file, used as it is.
UseLocalPackage ==
    /\ pc = "package"
    /\ Truthy(arg_pkg)
    /\ PathExists(fs, arg_pkg)
    /\ pkg_path' = arg_pkg
    /\ out' = out \cup {"using_local_file"}
    /\ pc' = "enter_dfu_mode"
    /\ UNCHANGED <<args, run, choice, dfu_outcome, returncode, cand, probes, nrfutil_bin, tmp_dir, release,
                   asset_name, listed, ports, port, cmd, fs, calls, exitCode, exc>>

\* Lines 475-479: no --pkg; the temporary directory is created and
\* download_dfu_package is entered.
MakeTempDir ==
    /\ pc = "package"
    /\ ~Truthy(arg_pkg)
    /\ tmp_dir' = TmpDir
    /\ fs' = fs \cup {TmpDir}
    /\ calls' = [calls EXCEPT !.mkdtemp = @ + 1]
    /\ pc' = "import_requests"
    /\ UNCHANGED <<args, run, choice, dfu_outcome, returncode, cand, probes, nrfutil_bin, pkg_path, release,
                   asset_name, listed, ports, port, cmd, out, exitCode, exc>>

\* Lines 315-320: the HTTP library is imported, or the run ends.
ImportRequests ==
    /\ pc = "import_requests"
    /\ \E available \in BOOLEAN :
        IF available
        THEN /\ pc' = "fetch_release"
             /\ UNCHANGED <<fs, out, calls, exitCode, exc>>
        ELSE LeaveOutsideTry(1, "SystemExit", {"requests_not_found"}, calls)
    /\ UNCHANGED <<args, run, choice, dfu_outcome, returncode, cand, probes, nrfutil_bin, tmp_dir, pkg_path, release,
                   asset_name, listed, ports, port, cmd>>

\* Lines 328-359: the release is fetched and its assets are scanned.  The
\* request may fail, the body may fail to decode (resp.json() raises outside
\* any try), or a release arrives.
FetchRelease ==
    /\ pc = "fetch_release"
    /\ LET c == [calls EXCEPT !.get_release = @ + 1]
       IN  \/ /\ LeaveOutsideTry(1, "SystemExit", {"fetch_failed"}, c)
              /\ UNCHANGED <<release, asset_name, listed>>
           \/ /\ LeaveOutsideTry(1, "JSONDecodeError", {"traceback"}, c)
              /\ UNCHANGED <<release, asset_name, listed>>
           \/ \E assets \in Releases :
                LET board_name == BOARD_ASSET_NAMES(arg_board)
                    k == ScanAssets(board_name, assets)
                IN  /\ release' = assets
                    /\ IF k = 0
                       THEN /\ listed' = XiaoListing(assets)
                            /\ asset_name' = None
                            /\ LeaveOutsideTry(1, "SystemExit", {"no_asset_found"}, c)
                       ELSE /\ asset_name' = assets[k]
                            /\ listed' = listed
                            /\ pc' = "download_asset"
                            /\ calls' = c
                            /\ UNCHANGED <<fs, out, exitCode, exc>>
    /\ UNCHANGED <<args, run, choice, dfu_outcome, returncode, cand, probes, nrfutil_bin, tmp_dir, pkg_path, ports,
                   port, cmd>>

\* Variant of WrittenFiles: the content is written under the name of the
\* asset alone, into the working directory instead of dest_dir.
WrittenInCwd(dest_path) == {SubSeq(dest_path, 3, Len(dest_path))}

\* Lines 369-371: the file that open(dest_path, "wb") and write create.
WrittenFiles(dest_path) == {dest_path}

\* Lines 361-373: the asset is downloaded and written into dest_dir.  The
\* request may fail, or writing the file may fail (open() raises outside any
\* try), or the path of the written file is returned to main.
DownloadAsset ==
    /\ pc = "download_asset"
    /\ LET c == [calls EXCEPT !.get_asset = @ + 1]
       IN  \/ /\ LeaveOutsideTry(1, "SystemExit", {"download_failed"}, c)
              /\ UNCHANGED <<pkg_path, release, asset_name>>
           \/ /\ LeaveOutsideTry(1, "OSError", {"traceback"}, c)
              /\ UNCHANGED <<pkg_path, release, asset_name>>
           \/ /\ pkg_path' = PathJoin(tmp_dir, asset_name)
              /\ fs' = fs \cup WrittenFiles(PathJoin(tmp_dir, asset_name))
              /\ calls' = c
              /\ release' = <<>>
              /\ asset_name' = None
              /\ pc' = "enter_dfu_mode"
              /\ UNCHANGED <<out, exitCode, exc>>
    /\ UNCHANGED <<args, run, choice, dfu_outcome, returncode, cand, probes, nrfutil_bin, tmp_dir, listed, ports,
                   port, cmd>>

-----------------------------------------------------------------------------
(* Steps 3-5, inside the try statement (lines 481-589) *)

\* Line 494: input("Press Enter ...").  Enter continues; Ctrl+C raises
\* KeyboardInterrupt and closed input raises EOFError, which nothing catches.
EnterDfuMode ==
    /\ pc = "enter_dfu_mode"
    /\ \/ /\ pc' = "detect_port"
          /\ UNCHANGED <<fs, out, calls, exitCode, exc>>
       \/ LeaveInsideTry(130, "KeyboardInterrupt", {"traceback"}, calls)
       \/ LeaveInsideTry(1, "EOFError", {"traceback"}, calls)
    /\ UNCHANGED <<args, run, choice, dfu_outcome, returncode, cand, probes, nrfutil_bin, tmp_dir, pkg_path, release,
                   asset_name, listed, ports, port, cmd>>

\* Lines 498-500: --port is given and used as the target.
UseGivenPort ==
    /\ pc = "detect_port"
    /\ Truthy(arg_port)
    /\ port' = arg_port
    /\ pc' = "flash"
    /\ UNCHANGED <<args, run, choice, dfu_outcome, returncode, cand, probes, nrfutil_bin, tmp_dir, pkg_path, release,
                   asset_name, listed, ports, cmd, fs, out, calls, exitCode, exc>>

\* Variant of OnlyPort: the single port found is not taken as the target.
OnlyPortDropped(found) == None

\* Line 518: port = ports[0]
OnlyPort(found) == found[1]

\* Lines 501-523: the ports are enumerated.  None: the run ends.  One: it is
\* the target.  Several: they are listed for selection.
DetectPorts ==
    /\ pc = "detect_port"
    /\ ~Truthy(arg_port)
    /\ \E nodes \in SUBSET DevNodes, comports \in ComLists, have_pyserial \in BOOLEAN :
        LET found == find_serial_ports(sys_name, nodes, comports, have_pyserial)
            c == [calls EXCEPT !.find_ports = @ + 1]
        IN  /\ ports' = found
            /\ IF found = <<>>
               THEN /\ LeaveInsideTry(1, "SystemExit", {"no_serial_ports"}, c)
                    /\ port' = port
               ELSE IF Len(found) = 1
               THEN /\ port' = OnlyPort(found)
                    /\ pc' = "flash"
                    /\ calls' = c
                    /\ UNCHANGED <<fs, out, exitCode, exc>>
               ELSE /\ port' = port
                    /\ pc' = "select_port"
                    /\ calls' = c
                    /\ UNCHANGED <<fs, out, exitCode, exc>>
    /\ UNCHANGED <<args, run, choice, dfu_outcome, returncode, cand, probes, nrfutil_bin, tmp_dir, pkg_path, release,
                   asset_name, listed, cmd>>

\* Lines 524-533: the operator answers the selection prompt.
SelectPort ==
    /\ pc = "select_port"
    /\ \/ \E answer \in Answers :
            LET typed == Strip(answer)
            IN  /\ choice' = typed
                /\ IF IntParses(typed) /\ IndexOk(ports, IntVal(typed))
                   THEN /\ port' = PyIndex(ports, IntVal(typed))
                        /\ pc' = "flash"
                        /\ UNCHANGED <<fs, out, calls, exitCode, exc>>
                   ELSE /\ LeaveInsideTry(1, "SystemExit", {"invalid_selection"}, calls)
                        /\ port' = port
       \/ /\ LeaveInsideTry(1, "SystemExit", {"cancelled"}, calls)
          /\ UNCHANGED <<port, choice>>
       \/ /\ LeaveInsideTry(1, "EOFError", {"traceback"}, calls)
          /\ UNCHANGED <<port, choice>>
    /\ UNCHANGED <<args, run, dfu_outcome, returncode, cand, probes, nrfutil_bin, tmp_dir, pkg_path, release,
                   asset_name, listed, ports, cmd>>

\* Lines 548-560: the command is built and handed to subprocess.run.
StartDfu ==
    /\ pc = "flash"
    /\ cmd' = <<nrfutil_bin, pkg_path, port>>
    /\ calls' = [calls EXCEPT !.dfu = @ + 1]
    /\ pc' = "transferring"
    /\ UNCHANGED <<args, run, choice, dfu_outcome, returncode, cand, probes, nrfutil_bin, tmp_dir, pkg_path, release,
                   asset_name, listed, ports, port, fs, out, exitCode, exc>>

\* Variant of ExitCodeFor: the return code is not looked at.
AlwaysSucceeds(rc) == 0

\* Exit code of the run for a return code of the utility (lines 568-585).
ExitCodeFor(rc) == IF rc # 0 THEN 1 ELSE 0

\* Variant of ReportOfRaise: whatever subprocess.run raises is reported as a
\* failed transfer.
ReportOfRaiseAsFailure(e) == "dfu_failed"

\* Lines 561-566: the report for what subprocess.run raised.
ReportOfRaise(e) ==
    IF e = "TimeoutExpired" THEN "dfu_timed_out" ELSE "failed_to_run"

\* Lines 559-589: subprocess.run returns or raises, the result is reported,
\* and the finally clause runs.
DfuEnds ==
    /\ pc = "transferring"
    /\ \/ \E e \in {"TimeoutExpired", "OSError"} :
            /\ dfu_outcome' = e
            /\ LeaveInsideTry(1, "SystemExit", {ReportOfRaise(e)}, calls)
            /\ returncode' = returncode
       \/ \E rc \in {0, 1, 2} :
            /\ dfu_outcome' = "returned"
            /\ returncode' = rc
            /\ IF ExitCodeFor(rc) # 0
               THEN LeaveInsideTry(ExitCodeFor(rc), "SystemExit", {"dfu_failed"}, calls)
               ELSE LeaveInsideTry(0, "", {"success", "manual_instructions"}, calls)
    /\ UNCHANGED <<args, run, choice, cand, probes, nrfutil_bin, tmp_dir, pkg_path,
                   release, asset_name, listed, ports, port, cmd>>

-----------------------------------------------------------------------------

Next ==
    \/ ProbeCandidate
    \/ CheckPrerequisites
    \/ LocalPackageMissing
    \/ UseLocalPackage
    \/ MakeTempDir
    \/ ImportRequests
    \/ FetchRelease
    \/ DownloadAsset
    \/ EnterDfuMode
    \/ UseGivenPort
    \/ DetectPorts
    \/ SelectPort
    \/ StartDfu
    \/ DfuEnds

Spec == Init /\ [][Next]_vars

\* The operator runs the tool again after a run whose transfer failed
\* (lines 561-573), with the same board, package argument and platform and
\* with a port argument of their choice.  The new process starts main from
\* the top; of the previous run only the filesystem is left.
Rerun ==
    /\ pc = "exited"
    /\ exitCode # 0
    /\ dfu_outcome # ""
    /\ run < MaxRuns
    /\ run' = run + 1
    /\ arg_port' \in PortArgs
    /\ pc' = "find_nrfutil"
    /\ cand' = 1
    /\ probes' = <<>>
    /\ nrfutil_bin' = None
    /\ tmp_dir' = None
    /\ pkg_path' = None
    /\ release' = <<>>
    /\ asset_name' = None
    /\ listed' = <<>>
    /\ ports' = <<>>
    /\ port' = None
    /\ cmd' = <<>>
    /\ returncode' = -1
    /\ out' = {}
    /\ calls' = NoCalls
    /\ exitCode' = -1
    /\ exc' = ""
    /\ choice' = None
    /\ dfu_outcome' = ""
    /\ UNCHANGED <<arg_board, arg_pkg, sys_name, fs>>

NextRetry == Next \/ Rerun

\* Runs of the tool repeated after failed transfers.
SpecRetry == Init /\ [][NextRetry]_vars

\* The session state of the run: where main() stands, or how it ended.
SessionState ==
    CASE pc \in {"find_nrfutil", "check_nrfutil", "package", "import_requests",
                 "fetch_release", "download_asset"}            -> "INIT"
      [] pc \in {"enter_dfu_mode", "detect_port", "select_port"} -> "PACKAGE_READY"
      [] pc = "flash"                                           -> "DEVICE_READY"
      [] pc = "transferring"                                    -> "TRANSFERRING"
      [] pc = "exited" /\ exitCode = 0                          -> "SUCCEEDED"
      [] OTHER                                                  -> "FAILED"

TypeOK ==
    /\ pc \in {"find_nrfutil", "check_nrfutil", "package", "import_requests",
               "fetch_release", "download_asset", "enter_dfu_mode", "detect_port",
               "select_port", "flash", "transferring", "exited"}
    /\ exitCode \in {-1, 0, 1, 130}
    /\ (pc = "exited") = (exitCode # -1)
    /\ tmp_dir \in {None, TmpDir}
    /\ Len(release) <= MaxAssets
    /\ returncode \in {-1, 0, 1, 2}
    /\ dfu_outcome \in {"", "returned", "TimeoutExpired", "OSError"}
    /\ run \in 1..MaxRuns
    /\ (choice = None) \/ (choice \in {Strip(a) : a \in Answers})

-----------------------------------------------------------------------------
(* Properties *)

\* Resolution returned a handle for a downloaded package (owned = true).
Owned == Truthy(tmp_dir) /\ Truthy(pkg_path)

\* Nothing of the temporary directory exists.
TempDirGone == \A p \in fs : ~IsUnder(p, TmpDir)

\* The filesystem the run started with.
InitialFs == {UserDir, LocalPkg}

\* C1: in a run whose package was downloaded, the temporary directory exists
\* until the run ends and is gone when the process has exited, whatever the
\* outcome (success, no port, invalid selection, transfer failure, timeout,
\* utility not startable, interruption at either prompt); it is removed
\* exactly once, and rmtree is never called a second time.
C1_OwnedTempDirRemovedOnce ==
    /\ calls.rmtree <= 1
    /\ calls.removed <= 1
    /\ (Owned /\ pc # "exited") => (tmp_dir \in fs /\ calls.removed = 0)
    /\ (Owned /\ pc = "exited") =>
          (TempDirGone /\ calls.rmtree = 1 /\ calls.removed = 1)

\* A downloaded package, the operator interrupts the selection prompt, and
\* the directory is gone at exit.
C1_Witness ==
    /\ Owned /\ pc = "exited" /\ "cancelled" \in out
    /\ TempDirGone /\ calls.removed = 1

\* C2: when resolution fails after the temporary directory was created, the
\* run ends as a failure and the directory does not survive the run.
C2_ResolutionFailureReleasesTempDir ==
    (pc = "exited" /\ Truthy(tmp_dir) /\ ~Truthy(pkg_path)) =>
        (exitCode # 0 /\ TempDirGone)

\* C3: with --pkg naming an existing file, that path is the package of the
\* transfer, no request is made, no temporary directory is created, nothing
\* is removed, and the user's file and directory exist in every state of the
\* run, whatever its outcome.
C3_LocalPackageUntouched ==
    (arg_pkg = LocalPkg) =>
        /\ calls.get_release = 0 /\ calls.get_asset = 0
        /\ calls.mkdtemp = 0 /\ tmp_dir = None
        /\ calls.rmtree = 0
        /\ fs = InitialFs
        /\ pkg_path \in {None, arg_pkg}
        /\ (cmd # <<>> => cmd[2] = arg_pkg)
        /\ (SessionState \notin {"INIT", "FAILED"} => pkg_path = arg_pkg)

\* The local file was handed to the transfer, the transfer failed, and the
\* file is still there.
C3_Witness ==
    /\ arg_pkg = LocalPkg /\ pc = "exited" /\ "dfu_failed" \in out
    /\ cmd[2] = LocalPkg /\ LocalPkg \in fs

\* C4: with --pkg naming a path that does not exist, no request is made, no
\* port is looked for, no transfer is started, and the run ends with a
\* nonzero exit status as soon as the package is looked at.
C4_MissingLocalPackageNoNetwork ==
    (arg_pkg # None /\ ~PathExists(InitialFs, arg_pkg)) =>
        /\ calls.get_release = 0 /\ calls.get_asset = 0
        /\ calls.find_ports = 0 /\ calls.dfu = 0
        /\ (pc = "exited" => exitCode # 0)

\* Every candidate's probe raised FileNotFoundError: the utility is absent.
UtilityAbsent ==
    /\ Len(probes) = Len(_NRFUTIL_CANDIDATES(sys_name))
    /\ \A i \in 1..Len(probes) : probes[i] = "FileNotFoundError"

ReleaseScanned ==
    /\ pc \in {"download_asset", "exited"}
    /\ calls.get_release = 1
    /\ "fetch_failed" \notin out /\ exc # "JSONDecodeError"
    /\ pkg_path = None

\* The rule for the combined package of board b: the name contains the
\* board's name fragment and ends with ".zip".
IsCombinedFor(b, name) ==
    Contains(name, BOARD_ASSET_NAMES(b)) /\ EndsWith(name, <<".zip">>)

OtherBoard(b) == IF b = "sense" THEN "standard" ELSE "sense"

\* C6: with no local package, the scan selects the first asset, in listed
\* order, whose name contains the selected board's fragment and ends with
\* ".zip"; it fails with "no asset found" exactly when no asset name
\* satisfies the rule; the selected asset, and the package downloaded from
\* it, never carries the name fragment of the other board.
C6_FirstMatchingAssetSelected ==
    /\ ReleaseScanned =>
          LET hits == {i \in 1..Len(release) : IsCombinedFor(arg_board, release[i])}
          IN  /\ ("no_asset_found" \in out) <=> (hits = {})
              /\ (hits = {}) => (asset_name = None /\ pc = "exited" /\ exitCode = 1)
              /\ (hits # {}) =>
                    \E k \in hits : /\ asset_name = release[k]
                                    /\ \A j \in hits : k <= j
    /\ Truthy(asset_name) =>
          ~Contains(asset_name, BOARD_ASSET_NAMES(OtherBoard(arg_board)))
    /\ Owned =>
          \E n \in AssetNames :
              /\ pkg_path = PathJoin(tmp_dir, n)
              /\ IsCombinedFor(arg_board, n)
              /\ ~Contains(n, BOARD_ASSET_NAMES(OtherBoard(arg_board)))

\* Two different packages of the board are listed and the first is selected.
C6_Witness ==
    /\ pc = "download_asset" /\ arg_board = "sense"
    /\ release = <<SenseZipOld, SenseZip>> /\ asset_name = SenseZipOld

\* The run ended because no asset of the release matched.
NoMatchExit == pc = "exited" /\ "no_asset_found" \in out

\* The name is that of an asset of the board that was not selected.
IsOfOtherBoard(name) ==
    /\ Contains(name, BOARD_ASSET_NAMES(OtherBoard(arg_board)))
    /\ ~Contains(name, BOARD_ASSET_NAMES(arg_board))

\* C7 (as stated): when no asset matches, only asset names that mention the
\* selected board's token are listed; in particular an asset of the other
\* board is never listed.
C7_ListingOnlySelectedBoard ==
    NoMatchExit => \A i \in 1..Len(listed) : ~IsOfOtherBoard(listed[i])

\* C7 (amended): when no asset matches, the run ends with exit status 1
\* without downloading anything, and the names listed are names of the
\* release that contain "xiao" in any letter case, the token both boards
\* share: an asset that does not contain it is never listed.
C7_ListingOnlyXiaoAssets ==
    /\ listed # <<>> => NoMatchExit
    /\ NoMatchExit =>
          /\ exitCode = 1
          /\ calls.get_asset = 0
          /\ fs = InitialFs \cup {TmpDir}
          /\ \A i \in 1..Len(listed) :
                /\ ContainsXiao(Lower(listed[i]))
                /\ \E j \in 1..Len(release) : release[j] = listed[i]
          /\ \A j \in 1..Len(release) :
                ~ContainsXiao(Lower(release[j])) =>
                    \A i \in 1..Len(listed) : listed[i] # release[j]

\* Board Sense, a release with a Standard image and a Feather package: the
\* Standard image is listed, the Feather package is not.
C7_Witness ==
    /\ NoMatchExit /\ arg_board = "sense"
    /\ release = <<StandardUf2, FeatherZip>> /\ listed = <<StandardUf2>>

\* The moves between session states that C8 allows.
StateMoves ==
    { <<"INIT", "PACKAGE_READY">>, <<"PACKAGE_READY", "DEVICE_READY">>,
      <<"DEVICE_READY", "TRANSFERRING">>, <<"TRANSFERRING", "SUCCEEDED">>,
      <<"INIT", "FAILED">>, <<"PACKAGE_READY", "FAILED">>,
      <<"TRANSFERRING", "FAILED">> }

\* The position of a place of main() in the text of main().
PcRank(p) ==
    CASE p = "find_nrfutil"    -> 1
      [] p = "check_nrfutil"   -> 2
      [] p = "package"         -> 3
      [] p = "import_requests" -> 4
      [] p = "fetch_release"   -> 5
      [] p = "download_asset"  -> 6
      [] p = "enter_dfu_mode"  -> 7
      [] p = "detect_port"     -> 8
      [] p = "select_port"     -> 9
      [] p = "flash"           -> 10
      [] p = "transferring"    -> 11
      [] p = "exited"          -> 12

\* C8: resolution, discovery and transfer happen in that order, each at most
\* once: every step moves main() forward (only the probe loop stays, on its
\* next candidate); discovery starts only with a resolved package; the
\* transfer command is built from a resolved package and a determined port;
\* and the session state only moves along INIT, PACKAGE_READY, DEVICE_READY,
\* TRANSFERRING, then SUCCEEDED or FAILED.
C8_FixedOrder ==
    /\ [](/\ calls.mkdtemp <= 1 /\ calls.get_release <= 1 /\ calls.get_asset <= 1
          /\ calls.find_ports <= 1 /\ calls.dfu <= 1
          /\ (calls.find_ports > 0 \/ ports # <<>> \/ port # None
                \/ pc \in {"detect_port", "select_port", "flash", "transferring"})
                => Truthy(pkg_path)
          /\ (calls.dfu > 0 \/ pc = "flash") => (Truthy(pkg_path) /\ Truthy(port))
          /\ (calls.dfu > 0) => (cmd = <<nrfutil_bin, pkg_path, port>>)
          /\ (calls.dfu = 0) => (cmd = <<>> /\ returncode = -1))
    /\ [][/\ \/ PcRank(pc') > PcRank(pc)
             \/ (pc = "find_nrfutil" /\ pc' = pc /\ cand' = cand + 1)
          /\ \/ SessionState' = SessionState
             \/ <<SessionState, SessionState'>> \in StateMoves]_vars

\* A run that enumerated the ports, ran the transfer and succeeded.
C8_Witness ==
    /\ pc = "exited" /\ exitCode = 0
    /\ calls.get_release = 1 /\ calls.get_asset = 1
    /\ calls.find_ports = 1 /\ calls.dfu = 1

\* The reports of a failure.
ResolutionFailures ==
    {"file_not_found", "requests_not_found", "fetch_failed", "no_asset_found",
     "download_failed"}

DiscoveryFailures == {"no_serial_ports", "invalid_selection", "cancelled"}

TransferFailures == {"dfu_timed_out", "failed_to_run", "dfu_failed"}

FailureReports ==
    {"nrfutil_not_found", "traceback"} \cup ResolutionFailures
        \cup DiscoveryFailures \cup TransferFailures

\* C9: a failure ends the run: a failure report is the only one of the run
\* and the process has exited with a nonzero status; after a failed
\* prerequisite check nothing else was done, after a failed resolution no
\* port was looked for and no transfer started, after a failed discovery no
\* transfer started; the release fetch, the asset download and the transfer
\* happen at most once; and no step leaves the exited state.
C9_FailuresAreTerminal ==
    /\ [](/\ calls.get_release <= 1 /\ calls.get_asset <= 1 /\ calls.dfu <= 1
          /\ (out \cap FailureReports # {}) =>
                /\ pc = "exited" /\ exitCode \notin {-1, 0}
                /\ Cardinality(out \cap FailureReports) = 1
          /\ (pc # "find_nrfutil" /\ nrfutil_bin = None) =>
                /\ pc \in {"check_nrfutil", "exited"}
                /\ calls = NoCalls /\ pkg_path = None /\ port = None
          /\ (out \cap ResolutionFailures # {} \/ exc \in {"JSONDecodeError", "OSError"}) =>
                /\ pkg_path = None /\ port = None /\ ports = <<>>
                /\ calls.find_ports = 0 /\ calls.dfu = 0
          /\ (out \cap DiscoveryFailures # {}) =>
                /\ port = None /\ cmd = <<>> /\ calls.dfu = 0
          /\ (out \cap TransferFailures # {}) => calls.dfu = 1)
    /\ [][pc # "exited"]_vars

\* The asset download failed after a successful release fetch, and the run
\* is over with one request of each kind.
C9_Witness ==
    /\ pc = "exited" /\ "download_failed" \in out
    /\ calls.get_release = 1 /\ calls.get_asset = 1 /\ calls.dfu = 0

\* C10: the exit status is 0 exactly when the transfer ran and the utility
\* returned 0; every reported failure gives a nonzero status; the success
\* report and the post-update guidance are printed only in such a run.
C10_ExitZeroIffTransferSucceeded ==
    /\ (pc = "exited") =>
          /\ (exitCode = 0) <=> (calls.dfu = 1 /\ returncode = 0)
          /\ (exitCode = 0) => (out \cap FailureReports = {})
          /\ (exitCode # 0) => (out \cap FailureReports # {})
    /\ (out \cap {"success", "manual_instructions"} # {}) =>
          /\ pc = "exited" /\ exitCode = 0
          /\ calls.dfu = 1 /\ returncode = 0
          /\ {"success", "manual_instructions"} \subseteq out
    /\ (out \cap FailureReports # {}) => exitCode \notin {-1, 0}

\* The utility returned 0 and the process exited with status 0.
C10_Witness ==
    /\ pc = "exited" /\ exitCode = 0 /\ returncode = 0 /\ "success" \in out


\* The run was ended by an interrupt (Ctrl+C) at one of the two prompts: the
\* KeyboardInterrupt of line 494 that nothing catches, or the one caught at
\* lines 530-532.
Interrupted ==
    pc = "exited" /\ (exc = "KeyboardInterrupt" \/ "cancelled" \in out)

\* C11: a run interrupted at the confirmation prompt or at the selection
\* prompt has released its temporary directory, has started no transfer, and
\* ends with a status that is neither success (0) nor the status of a failed
\* run (1).
C11_InterruptEndsAsCanceled ==
    Interrupted => (TempDirGone /\ calls.dfu = 0 /\ exitCode \notin {0, 1})

\* The transfer ran into its timeout (line 561).
TimedOut == dfu_outcome = "TimeoutExpired"

\* The utility ran to its end and returned a nonzero exit code (line 568).
Rejected == dfu_outcome = "returned" /\ returncode # 0

\* C12: a transfer that exceeds its timeout is reported as timed out and a
\* transfer whose utility exits nonzero is reported as failed; the two
\* reports are different, neither is ever printed for the other outcome, and
\* neither outcome is reported as a success or ends with status 0.
C12_TimeoutDistinctFromRejection ==
    /\ ("dfu_timed_out" \in out) <=> TimedOut
    /\ ("dfu_failed" \in out) <=> Rejected
    /\ ~(TimedOut /\ Rejected)
    /\ (TimedOut \/ Rejected) =>
          /\ pc = "exited"
          /\ "success" \notin out
          /\ exitCode # 0
          /\ SessionState = "FAILED"

C12_Witness ==
    /\ TimedOut
    /\ "dfu_timed_out" \in out
    /\ "dfu_failed" \notin out
    /\ calls.dfu = 1

\* C13: every run ends through the handling of main itself, by a normal
\* return or by sys.exit after one printed message; no other exception ever
\* leaves main, whatever fails or interrupts the run (an undecodable release
\* response, a failure to write the downloaded file, an interrupt or end of
\* input at a prompt, a utility that cannot be started).
C13_NoUnhandledException ==
    /\ exc \in {"", "SystemExit"}
    /\ "traceback" \notin out

\* A run is at its start: nothing of main has been executed yet.
AtStart == pc = "find_nrfutil" /\ probes = <<>>

\* C14: when the tool is run again after runs whose transfer failed (nonzero
\* exit, timeout), every run starts on the filesystem the first run started
\* on, and a run that succeeds ends as a first-attempt success does: status
\* 0, one transfer, the success report and no failure report, and no
\* temporary directory left behind.
C14_RetryEndsAsFirstAttempt ==
    /\ AtStart => (fs = InitialFs /\ calls = NoCalls /\ out = {})
    /\ (pc = "exited" /\ exitCode = 0) =>
          /\ SessionState = "SUCCEEDED"
          /\ fs = InitialFs
          /\ TempDirGone
          /\ calls.dfu = 1
          /\ "success" \in out
          /\ out \cap FailureReports = {}

C14_Witness ==
    /\ run = 3
    /\ pc = "exited"
    /\ exitCode = 0
    /\ Owned
    /\ calls.removed = 1
    /\ fs = InitialFs

\* The release holds the two bootloader-only assets and nothing else, and
\* the board is the Sense variant.
Uf2Scenario ==
    /\ ReleaseScanned
    /\ arg_board = "sense"
    /\ release = <<SenseUf2, StandardUf2>>

Enumerated == calls.find_ports = 1

\* What C17 says of a run without --port, by the number of candidates:
\* none ends the run with "no serial ports" and no transfer, one is taken
\* without a prompt, several are the target only after an answer to the
\* selection prompt.
EnumeratedPortRule ==
    /\ (Enumerated /\ ports = <<>>) =>
          (pc = "exited" /\ "no_serial_ports" \in out /\ calls.dfu = 0
              /\ SessionState = "FAILED")
    /\ (Enumerated /\ Len(ports) = 1) =>
          (port = ports[1] /\ choice = None /\ pc # "select_port")
    /\ (Enumerated /\ Len(ports) >= 2) =>
          /\ pc \in {"select_port", "flash", "transferring", "exited"}
          /\ (Truthy(port) \/ calls.dfu > 0) =>
                (choice # None /\ \E i \in 1..Len(ports) : port = ports[i])

\* C17: a port given with --port is the target as it is, with no enumeration
\* and no prompt; without --port, no candidate ends the run with no transfer,
\* a single candidate is taken without a prompt, and with two or more
\* candidates no transfer starts before the operator has selected one.
C17_PortLocation ==
    /\ (arg_port # None) =>
          /\ calls.find_ports = 0
          /\ pc # "select_port"
          /\ choice = None
          /\ Truthy(port) => port = arg_port
          /\ cmd # <<>> => cmd[3] = arg_port
    /\ (arg_port = None) =>
          /\ pc \in {"flash", "transferring"} => Enumerated
          /\ EnumeratedPortRule

\* The content of an asset arrived (the GET of line 362 was made and did not
\* fail).
ContentDownloaded == calls.get_asset = 1 /\ "download_failed" \notin out

\* download_dfu_package has got past the import of the HTTP library.
PastImport ==
    /\ Truthy(tmp_dir)
    /\ pc \notin {"import_requests", "fetch_release"}
    /\ "requests_not_found" \notin out

\* C18: a remote resolution fetches the release metadata exactly once and
\* downloads at most one asset, and only after the scan has found a matching
\* asset; a temporary directory is created at most once, and a run that has
\* ended without downloading the content of an asset has created none.
C18_OneFetchOneDownloadOneTempDir ==
    /\ calls.get_release <= 1
    /\ calls.get_asset <= 1
    /\ calls.mkdtemp <= 1
    /\ PastImport => calls.get_release = 1
    /\ pc = "download_asset" =>
          (Truthy(asset_name)
              /\ AssetMatches(BOARD_ASSET_NAMES(arg_board), asset_name))
    /\ calls.get_asset = 1 =>
          (calls.get_release = 1 /\ "no_asset_found" \notin out
              /\ calls.mkdtemp = 1)
    /\ (pc = "exited" /\ ~ContentDownloaded) => calls.mkdtemp = 0

\* The answer given at the selection prompt names an index of the list:
\* a number k with 0 <= k < n.
NamesAnIndex(answer, n) ==
    IntParses(answer) /\ 0 <= IntVal(answer) /\ IntVal(answer) < n

\* C19: once the operator has answered the selection prompt for the ports
\* indexed 0..n-1, the target is port k exactly when the answer is the number
\* k with 0 <= k < n; after any other answer (not a number, empty, n or more,
\* negative) the run has ended as a failure with no target, no transfer and
\* no temporary directory left.
C19_SelectionIsExactIndex ==
    (choice # None) =>
        IF NamesAnIndex(choice, Len(ports))
        THEN port = ports[IntVal(choice) + 1]
        ELSE /\ pc = "exited"
             /\ "invalid_selection" \in out
             /\ SessionState = "FAILED"
             /\ port = None
             /\ calls.dfu = 0
             /\ TempDirGone

\* The package file named in the transfer command.
CmdPackage == cmd[2]

\* C20: nothing is removed before the transfer has ended: while the run has
\* not ended rmtree has not been called, a downloaded package and its
\* temporary directory exist, and in every state in which the transfer is in
\* progress the package file handed to the utility exists.
C20_PackageExistsDuringTransfer ==
    /\ pc # "exited" => (calls.rmtree = 0 /\ calls.removed = 0)
    /\ (Owned /\ pc # "exited") =>
          (PathExists(fs, tmp_dir) /\ PathExists(fs, pkg_path)
              /\ IsUnder(pkg_path, tmp_dir))
    /\ pc = "transferring" =>
          (CmdPackage = pkg_path /\ PathExists(fs, CmdPackage))

C20_Witness ==
    /\ pc = "transferring"
    /\ Owned
    /\ PathExists(fs, CmdPackage)
    /\ IsUnder(CmdPackage, TmpDir)

\* find_nrfutil has returned.
DetectionDone == pc # "find_nrfutil"

\* The candidates of this platform, in their order of preference.
Candidates == _NRFUTIL_CANDIDATES(sys_name)

\* C21: the candidates are probed in their order of preference, each at most
\* once, and the probing stops at the first one whose version probe exits
\* with code 0, which is the binary returned; a candidate whose probe raises
\* (not found, OS error, timeout) or exits nonzero is passed over; "not
\* found" is reported exactly when no probe exited 0; and the transfer runs
\* the binary the detection returned.
C21_FirstWorkingCandidateIsUsed ==
    /\ Len(probes) <= Len(Candidates)
    /\ \A i \in 1..(Len(probes) - 1) : probes[i] # "rc0"
    /\ ~DetectionDone =>
          /\ cand = Len(probes) + 1
          /\ \A i \in 1..Len(probes) : probes[i] # "rc0"
          /\ nrfutil_bin = None
    /\ DetectionDone =>
          /\ cand = Len(probes)
          /\ IF probes[Len(probes)] = "rc0"
             THEN nrfutil_bin = <<Candidates[Len(probes)]>>
             ELSE nrfutil_bin = None /\ Len(probes) = Len(Candidates)
    /\ ("nrfutil_not_found" \in out) <=>
          /\ pc = "exited"
          /\ Len(probes) = Len(Candidates)
          /\ \A i \in 1..Len(probes) : probes[i] # "rc0"
    /\ cmd # <<>> =>
          /\ cmd[1] = nrfutil_bin
          /\ probes[Len(probes)] = "rc0"
          /\ cmd[1] = <<Candidates[Len(probes)]>>

C21_Witness ==
    /\ pc = "transferring"
    /\ sys_name = "Windows"
    /\ probes = <<"FileNotFoundError", "rc1", "rc0">>
    /\ cmd[1] = <<".\\adafruit-nrfutil.exe">>

====
